---------------------------- MODULE Spec2Model ----------------------------
(***************************************************************************)
(* Model of extract_snpvar.py: the script that reads a table of SNPs,      *)
(* indexes it by a canonical SNP id, loads the two reference tables of     *)
(* per-SNP heritabilities, truncates the ratio between the largest and the *)
(* smallest heritability, merges the two tables on the SNP id and writes   *)
(* the result.                                                             *)
(*                                                                         *)
(* A table is a sequence of entries [snpid |-> index label, row |-> a      *)
(* function from column names to values].  The float column snpvar_bin is  *)
(* held in exact rational arithmetic: a value is a pair <<num, den>> in    *)
(* lowest terms with den > 0.                                              *)
(***************************************************************************)
EXTENDS Integers, Sequences, FiniteSets, TLC

VARIABLES pc, args, sumstats_cols, df_snps, meta_file, df_meta, df,
          miss_file, out_file, err

vars == <<pc, args, sumstats_cols, df_snps, meta_file, df_meta, df,
          miss_file, out_file, err>>

-----------------------------------------------------------------------------
(* Bounds of the model *)

MaxUser == 2
MaxRef == 2
MaxArgQ == 2
MaxLen == 3
MaxWeight == 4
MaxQ == 4

-----------------------------------------------------------------------------
(* Exact rational arithmetic for the float column *)

Abs(n) == IF n < 0 THEN -n ELSE n

RECURSIVE Gcd(_, _)
Gcd(a, b) == IF b = 0 THEN a ELSE Gcd(b, a % b)

Rat(n, d) == LET g == Gcd(Abs(n), Abs(d))
                 s == IF d < 0 THEN -1 ELSE 1
             IN  <<(s * n) \div g, (s * d) \div g>>

RAdd(x, y) == Rat(x[1] * y[2] + y[1] * x[2], x[2] * y[2])
RMul(x, y) == Rat(x[1] * y[1], x[2] * y[2])
RDiv(x, y) == Rat(x[1] * y[2], x[2] * y[1])
RLess(x, y) == x[1] * y[2] < y[1] * x[2]
RLeq(x, y) == x[1] * y[2] <= y[1] * x[2]

RECURSIVE ColSum(_)
ColSum(col) == IF col = <<>> THEN <<0, 1>>
               ELSE RAdd(col[1], ColSum(Tail(col)))

RECURSIVE ColMax(_)
ColMax(col) == IF Len(col) = 1 THEN col[1]
               ELSE LET m == ColMax(Tail(col))
                    IN  IF RLess(col[1], m) THEN m ELSE col[1]

\* the smallest value of a column: the properties speak of it, the script
\* does not compute it
RECURSIVE ColMin(_)
ColMin(col) == IF Len(col) = 1 THEN col[1]
               ELSE LET m == ColMin(Tail(col))
                    IN  IF RLess(m, col[1]) THEN m ELSE col[1]

\* np.isclose(a, b): |a - b| <= atol + rtol * |b| with rtol = 1e-5, atol = 1e-8,
\* that is |a - b| * 10^8 <= 1 + 1000 * |b|, over the common denominator.
isclose(a, b) ==
    Abs(a[1] * b[2] - b[1] * a[2])
        <= (a[2] * b[2] + 1000 * Abs(b[1]) * a[2]) \div 100000000

-----------------------------------------------------------------------------
(* Truncating the ratio between the largest and smallest per-SNP h^2 *)

min_snpvar_mul(col, q) == RMul(ColMax(col), <<q, 1>>)

min_snpvar_of_min(col, q) == RDiv(ColMin(col), <<q, 1>>)

min_snpvar(col, q) == RDiv(ColMax(col), <<q, 1>>)

snpvar_sum(col) == ColSum(col)

clamped_no_floor(col, q) == col

clamped(col, q) ==
    [i \in DOMAIN col |->
        IF RLess(col[i], min_snpvar(col, q)) THEN min_snpvar(col, q) ELSE col[i]]

snpvar_sum2(col, q) == ColSum(clamped(col, q))

rescaled_no_factor(col, q) == clamped(col, q)

rescaled(col, q) ==
    [i \in DOMAIN col |->
        RMul(clamped(col, q)[i], RDiv(snpvar_sum(col), snpvar_sum2(col, q)))]

snpvar_sum3(col, q) == ColSum(rescaled(col, q))

-----------------------------------------------------------------------------
(* Tables, columns and the SNP id *)

REQUIRED == {"CHR", "BP", "A1", "A2"}

\* polyfun_utils.SNP_COLUMNS: the key-forming columns
SNP_COLUMNS == {"CHR", "BP", "A1", "A2"}

\* the columns of the two bundled reference tables
MetaColumns == {"CHR", "BP", "A1", "A2", "snpvar_bin"}

Alleles == <<"A", "G">>

AlleleRank(a) == CHOOSE i \in 1..Len(Alleles) : Alleles[i] = a

\* the string comparison A1 < A2
AlleleLess(a, b) == AlleleRank(a) < AlleleRank(b)

\* polyfun_utils.set_snpid_index: chromosome, position and the sorted
\* allele pair
snpid_of(row) ==
    IF AlleleLess(row["A1"], row["A2"])
    THEN <<row["CHR"], row["BP"], row["A1"], row["A2"]>>
    ELSE <<row["CHR"], row["BP"], row["A2"], row["A1"]>>

set_snpid_index(table) ==
    [i \in DOMAIN table |-> [snpid |-> snpid_of(table[i].row), row |-> table[i].row]]

\* a freshly read table carries the default index 0, 1, 2, ...
RangeIndexed(rows) ==
    [i \in DOMAIN rows |-> [snpid |-> i - 1, row |-> rows[i]]]

Index(table) == {table[i].snpid : i \in DOMAIN table}

Rows(table) == [i \in DOMAIN table |-> table[i].row]

duplicated_all(table) ==
    \A j \in DOMAIN table : \E i \in DOMAIN table : i < j /\ table[i].snpid = table[j].snpid

\* np.any(index.duplicated())
duplicated(table) ==
    \E i, j \in DOMAIN table : i < j /\ table[i].snpid = table[j].snpid

Column(table, c) == [i \in DOMAIN table |-> table[i].row[c]]

-----------------------------------------------------------------------------
(* to_csv(float_format='%0.4e'): a float is written with five significant *)
(* digits, round half to even                                              *)

RECURSIVE Pow10(_)
Pow10(k) == IF k = 0 THEN 1 ELSE 10 * Pow10(k - 1)

RECURSIVE Exp10(_)
Exp10(x) == IF RLeq(<<10, 1>>, x) THEN Exp10(RDiv(x, <<10, 1>>)) + 1
            ELSE IF RLess(x, <<1, 1>>) THEN Exp10(RMul(x, <<10, 1>>)) - 1
            ELSE 0

RoundHalfEven(n, d) ==
    LET f == n \div d
        r == n % d
    IN  IF 2 * r < d THEN f
        ELSE IF 2 * r > d THEN f + 1
        ELSE IF f % 2 = 0 THEN f ELSE f + 1

float_format(x) ==
    IF x[1] = 0 THEN <<0, 1>>
    ELSE LET k == 4 - Exp10(x)
         IN  IF k >= 0
             THEN Rat(RoundHalfEven(x[1] * Pow10(k), x[2]), Pow10(k))
             ELSE Rat(RoundHalfEven(x[1], x[2] * Pow10(-k)) * Pow10(-k), 1)

\* the float columns of a written table: the weight and the extra user column
IsFloatColumn(c) == c \notin REQUIRED

to_csv_formatted(rows) ==
    [i \in DOMAIN rows |->
        [c \in DOMAIN rows[i] |->
            IF IsFloatColumn(c) THEN float_format(rows[i][c]) ELSE rows[i][c]]]

-----------------------------------------------------------------------------
(* The inputs: the command line, the sumstats file, the reference files.   *)
(* args holds --q and --allow-missing; the extension of --out is read by   *)
(* the last statement alone and is drawn there.                            *)

AlleleSet == {Alleles[i] : i \in 1..Len(Alleles)}

SeqsBetween(S, lo, hi) == UNION {[1..k -> S] : k \in lo..hi}

\* one extra column at most, under a name that is free, the name of the
\* output column or the name of the reference weight column; or one of the
\* required columns absent
ExtraNames == {"Z", "SNPVAR", "snpvar_bin"}

SumstatsColumnSets ==
    {REQUIRED} \cup {REQUIRED \cup {e} : e \in ExtraNames}
               \cup {REQUIRED \ {c} : c \in REQUIRED}

\* The SNPs of the tables: one position on chromosome 1 and on chromosome 8,
\* with the two alleles in either order.
Positions == {1}

\* The weights of the reference tables the whole script is run on; SpecRescale
\* runs the rescale on the columns of WeightColumns.
RefWeights == {1, 2}

SnpRecords(chrs) ==
    {r \in [CHR : chrs, BP : Positions, A1 : AlleleSet, A2 : AlleleSet] :
        r.A1 # r.A2}

SumstatsTables == SeqsBetween(SnpRecords({1, 8}), 0, MaxUser)

\* row i of the sumstats file; its extra column holds the float 10 + i
SumstatsRow(rec, cols, i) ==
    [c \in cols |-> IF c \in REQUIRED THEN rec[c] ELSE <<10 + i, 1>>]

MetaRecords(chrs) ==
    {r \in [CHR : chrs, BP : Positions, A1 : AlleleSet, A2 : AlleleSet,
            snpvar_bin : {<<w, 1>> : w \in RefWeights}] : r.A1 # r.A2}

\* snpvar_meta.chr1_7.parquet and snpvar_meta.chr8_22.parquet
MetaFiles ==
    {f \in SeqsBetween(MetaRecords({1}), 0, MaxRef)
           \X SeqsBetween(MetaRecords({8}), 0, MaxRef) :
        Len(f[1]) + Len(f[2]) \in 1..MaxRef}

\* reference tables of distinct SNPs on chromosome 1 with any weight column
WeightColumns == SeqsBetween(1..MaxWeight, 1, MaxLen)

ColumnMetaFiles ==
    {<<[i \in DOMAIN ws |->
          [CHR |-> 1, BP |-> i, A1 |-> "A", A2 |-> "G",
           snpvar_bin |-> <<ws[i], 1>>]], <<>>>> : ws \in WeightColumns}

NoFile == [written |-> FALSE, rows |-> <<>>]

NoError == [type |-> "none", line |-> 0, msg |-> ""]

ValueError(l, m) == [type |-> "ValueError", line |-> l, msg |-> m]

AssertionError(l) == [type |-> "AssertionError", line |-> l, msg |-> ""]

DuplicateMsg == "duplicate SNPs found in output"

MissingMsg == "Not all SNPs in the SNPs file were found in the meta file"

SharedMsg == "Column appears in both the sumstats files and in the meta-analysis files"

-----------------------------------------------------------------------------
(* The script, statement by statement *)

Init ==
    /\ pc = "read_sumstats"
    /\ args \in [q : 1..MaxArgQ, allow_missing : BOOLEAN]
    /\ sumstats_cols = {}
    /\ df_snps = <<>>
    /\ meta_file = <<<<>>, <<>>>>
    /\ df_meta = <<>>
    /\ df = <<>>
    /\ miss_file = NoFile
    /\ out_file = NoFile
    /\ err = NoError

\* the rescale taken alone: an empty, valid sumstats table already indexed
InitRescale ==
    /\ pc = "load_meta"
    /\ args \in [q : 1..MaxQ, allow_missing : {FALSE}]
    /\ sumstats_cols = REQUIRED
    /\ df_snps = <<>>
    /\ meta_file = <<<<>>, <<>>>>
    /\ df_meta = <<>>
    /\ df = <<>>
    /\ miss_file = NoFile
    /\ out_file = NoFile
    /\ err = NoError

Raise(e) ==
    /\ pc' = "error"
    /\ err' = e

ReadSumstats ==
    /\ pc = "read_sumstats"
    /\ \E cols \in SumstatsColumnSets, t \in SumstatsTables :
          /\ sumstats_cols' = cols
          /\ df_snps' = RangeIndexed([i \in DOMAIN t |-> SumstatsRow(t[i], cols, i)])
    /\ pc' = "check_columns"
    /\ UNCHANGED <<args, meta_file, df_meta, df, miss_file, out_file, err>>

CheckColumns ==
    /\ pc = "check_columns"
    /\ IF "A1" \notin sumstats_cols THEN Raise(ValueError(58, "missing column A1"))
       ELSE IF "A2" \notin sumstats_cols THEN Raise(ValueError(60, "missing column A2"))
       ELSE IF "CHR" \notin sumstats_cols THEN Raise(ValueError(62, "missing column CHR"))
       ELSE IF "BP" \notin sumstats_cols THEN Raise(ValueError(64, "missing column BP"))
       ELSE pc' = "set_index" /\ err' = err
    /\ UNCHANGED <<args, sumstats_cols, df_snps, meta_file, df_meta, df,
                   miss_file, out_file>>

SetIndexSnps ==
    /\ pc = "set_index"
    /\ df_snps' = set_snpid_index(df_snps)
    /\ pc' = "check_dup_snps"
    /\ UNCHANGED <<args, sumstats_cols, meta_file, df_meta, df, miss_file,
                   out_file, err>>

CheckDupSnps ==
    /\ pc = "check_dup_snps"
    /\ IF duplicated(df_snps) THEN Raise(ValueError(72, DuplicateMsg))
       ELSE pc' = "load_meta" /\ err' = err
    /\ UNCHANGED <<args, sumstats_cols, df_snps, meta_file, df_meta, df,
                   miss_file, out_file>>

LoadMeta(files) ==
    /\ pc = "load_meta"
    /\ meta_file' = files
    /\ df_meta' = set_snpid_index(RangeIndexed(files[1] \o files[2]))
    /\ pc' = "rescale"
    /\ UNCHANGED <<args, sumstats_cols, df_snps, df, miss_file, out_file, err>>

Rescale ==
    /\ pc = "rescale"
    /\ LET col == Column(df_meta, "snpvar_bin")
           new == rescaled(col, args.q)
       IN  /\ df_meta' = [i \in DOMAIN df_meta |->
                            [df_meta[i] EXCEPT !.row["snpvar_bin"] = new[i]]]
           /\ IF isclose(snpvar_sum3(col, args.q), snpvar_sum(col))
              THEN pc' = "check_shared" /\ err' = err
              ELSE Raise(AssertionError(94))
    /\ UNCHANGED <<args, sumstats_cols, df_snps, meta_file, df, miss_file,
                   out_file>>

CheckShared ==
    /\ pc = "check_shared"
    /\ IF \E c \in sumstats_cols : c \notin SNP_COLUMNS /\ c \in MetaColumns
       THEN Raise(ValueError(99, SharedMsg))
       ELSE pc' = "merge" /\ err' = err
    /\ UNCHANGED <<args, sumstats_cols, df_snps, meta_file, df_meta, df,
                   miss_file, out_file>>

\* df_meta.index.isin(df_snps.index)
isin(table, other) == SelectSeq(table, LAMBDA e : e.snpid \in Index(other))

matches_on_columns(l, r) ==
    /\ l.snpid = r.snpid
    /\ l.row["A1"] = r.row["A1"]
    /\ l.row["A2"] = r.row["A2"]

\* left_index=True, right_index=True
matches(l, r) == l.snpid = r.snpid

\* the columns of the left table, then those of the right table that
\* drop(columns=SNP_COLUMNS) left
merge_row(l, r) ==
    [c \in DOMAIN l.row \cup (DOMAIN r.row \ SNP_COLUMNS) |->
        IF c \in DOMAIN l.row THEN l.row[c] ELSE r.row[c]]

RECURSIVE merge(_, _)
merge(left, right) ==
    IF left = <<>> THEN <<>>
    ELSE LET hits == SelectSeq(right, LAMBDA r : matches(left[1], r))
         IN  [i \in DOMAIN hits |->
                [snpid |-> left[1].snpid, row |-> merge_row(left[1], hits[i])]]
             \o merge(Tail(left), right)

Merge ==
    /\ pc = "merge"
    /\ df_meta' = isin(df_meta, df_snps)
    /\ df' = merge(isin(df_meta, df_snps), df_snps)
    /\ pc' = "missing"
    /\ UNCHANGED <<args, sumstats_cols, df_snps, meta_file, miss_file,
                   out_file, err>>

df_miss_found(snps, meta) ==
    SelectSeq(snps, LAMBDA e : e.snpid \in Index(meta))

\* df_snps.loc[~df_snps.index.isin(df_meta.index)]
df_miss(snps, meta) ==
    SelectSeq(snps, LAMBDA e : e.snpid \notin Index(meta))

HandleMissing ==
    /\ pc = "missing"
    /\ IF Len(df) < Len(df_snps)
       THEN /\ miss_file' = [written |-> TRUE, rows |-> Rows(df_miss(df_snps, df_meta))]
            /\ IF args.allow_missing
               THEN pc' = "set_snpvar" /\ err' = err
               ELSE Raise(ValueError(116, MissingMsg))
       ELSE /\ miss_file' = miss_file
            /\ pc' = "set_snpvar"
            /\ err' = err
    /\ UNCHANGED <<args, sumstats_cols, df_snps, meta_file, df_meta, df,
                   out_file>>

\* df['SNPVAR'] = df['snpvar_bin']; del df['snpvar_bin']
with_SNPVAR(row) ==
    [c \in (DOMAIN row \cup {"SNPVAR"}) \ {"snpvar_bin"} |->
        IF c = "SNPVAR" THEN row["snpvar_bin"] ELSE row[c]]

SetSnpvar ==
    /\ pc = "set_snpvar"
    /\ df' = [i \in DOMAIN df |-> [df[i] EXCEPT !.row = with_SNPVAR(df[i].row)]]
    /\ pc' = "check_dup_out"
    /\ UNCHANGED <<args, sumstats_cols, df_snps, meta_file, df_meta,
                   miss_file, out_file, err>>

\* to_parquet(index=False) when args.out ends with .parquet, else
\* to_csv(index=False, float_format='%0.4e')
written(table, parquet) ==
    [written |-> TRUE,
     rows |-> IF parquet THEN Rows(table) ELSE to_csv_formatted(Rows(table))]

CheckDupOut_after_write ==
    /\ pc = "check_dup_out"
    /\ IF duplicated(df)
       THEN /\ Raise(ValueError(125, DuplicateMsg))
            /\ \E parquet \in BOOLEAN : out_file' = written(df, parquet)
       ELSE pc' = "write" /\ err' = err /\ out_file' = out_file
    /\ UNCHANGED <<args, sumstats_cols, df_snps, meta_file, df_meta, df,
                   miss_file>>

CheckDupOut ==
    /\ pc = "check_dup_out"
    /\ IF duplicated(df) THEN Raise(ValueError(125, DuplicateMsg))
       ELSE pc' = "write" /\ err' = err
    /\ UNCHANGED <<args, sumstats_cols, df_snps, meta_file, df_meta, df,
                   miss_file, out_file>>

WriteOutput ==
    /\ pc = "write"
    /\ \E parquet \in BOOLEAN : out_file' = written(df, parquet)
    /\ pc' = "done"
    /\ UNCHANGED <<args, sumstats_cols, df_snps, meta_file, df_meta, df,
                   miss_file, err>>

Next ==
    \/ ReadSumstats
    \/ CheckColumns
    \/ SetIndexSnps
    \/ CheckDupSnps
    \/ \E files \in MetaFiles : LoadMeta(files)
    \/ Rescale
    \/ CheckShared
    \/ Merge
    \/ HandleMissing
    \/ SetSnpvar
    \/ CheckDupOut
    \/ WriteOutput

Spec == Init /\ [][Next]_vars

NextRescale ==
    \/ \E files \in ColumnMetaFiles : LoadMeta(files)
    \/ Rescale

SpecRescale == InitRescale /\ [][NextRescale]_vars

-----------------------------------------------------------------------------
(* What the properties speak of *)

\* the concatenated reference table as loaded, before the rescale
RefTable == set_snpid_index(RangeIndexed(meta_file[1] \o meta_file[2]))

OrigCol == Column(RefTable, "snpvar_bin")

NewCol == Column(df_meta, "snpvar_bin")

Rescaled == pc = "check_shared"

\* max(original weights) / q
Floor == RDiv(ColMax(OrigCol), <<args.q, 1>>)

SomeClamped == \E i \in DOMAIN OrigCol : RLess(OrigCol[i], Floor)

\* the sum of the column once every value below the floor is raised to it
ClampedSum ==
    ColSum([i \in DOMAIN OrigCol |->
              IF RLess(OrigCol[i], Floor) THEN Floor ELSE OrigCol[i]])

\* C1: after the rescale the sum of the weight column equals the sum of the
\* original column, exactly, and the assertion that follows never fails.
C1_SumPreserved ==
    /\ Rescaled => ColSum(NewCol) = ColSum(OrigCol)
    /\ err.type # "AssertionError"

C1_Witness == Rescaled /\ SomeClamped /\ NewCol # OrigCol

\* C2 as stated: after the rescale every weight is at least
\* max(original weights) / q.
C2_Original ==
    Rescaled => \A i \in DOMAIN NewCol : RLeq(Floor, NewCol[i])

\* C2 as amended: after the rescale every weight is at least
\* (max(original weights) / q) * (original sum / clamped sum), and when a value
\* was clamped the clamped values lie strictly below max(original weights) / q.
C2_ScaledFloor ==
    Rescaled =>
        /\ \A i \in DOMAIN NewCol :
              RLeq(RMul(Floor, RDiv(ColSum(OrigCol), ClampedSum)), NewCol[i])
        /\ SomeClamped => \E i \in DOMAIN NewCol : RLess(NewCol[i], Floor)

C2_Witness ==
    /\ Rescaled
    /\ SomeClamped
    /\ \E i \in DOMAIN NewCol :
          NewCol[i] = RMul(Floor, RDiv(ColSum(OrigCol), ClampedSum))

\* C3: after the rescale the largest weight is at most q times the smallest,
\* and with q = 1 all the weights are equal.
C3_RatioCapped ==
    Rescaled =>
        /\ RLeq(ColMax(NewCol), RMul(<<args.q, 1>>, ColMin(NewCol)))
        /\ args.q = 1 => \A i, j \in DOMAIN NewCol : NewCol[i] = NewCol[j]

C3_Witness ==
    /\ Rescaled
    /\ args.q = 1
    /\ \E i, j \in DOMAIN OrigCol : OrigCol[i] # OrigCol[j]
    /\ \A i, j \in DOMAIN NewCol : NewCol[i] = NewCol[j]

\* C10: when q is at least max(weights) / min(weights) the rescale changes
\* no weight.
C10_NoOp ==
    Rescaled /\ RLeq(ColMax(OrigCol), RMul(<<args.q, 1>>, ColMin(OrigCol)))
        => NewCol = OrigCol

C10_Witness ==
    /\ Rescaled
    /\ RLess(ColMin(OrigCol), ColMax(OrigCol))
    /\ RLeq(ColMax(OrigCol), RMul(<<args.q, 1>>, ColMin(OrigCol)))
    /\ NewCol = OrigCol

Terminated == pc \in {"done", "error"}

\* the sumstats table carries the SNP id
Indexed ==
    /\ pc \notin {"read_sumstats", "check_columns", "set_index"}
    /\ ~(pc = "error" /\ err.line \in {58, 60, 62, 64})

\* the merge has run
Merged ==
    \/ pc \in {"missing", "set_snpvar", "check_dup_out", "write", "done"}
    \/ pc = "error" /\ err.line \in {116, 125}

\* the handling of the missing SNPs has run
MissingHandled ==
    \/ pc \in {"set_snpvar", "check_dup_out", "write", "done"}
    \/ pc = "error" /\ err.line \in {116, 125}

Swapped(row) == [row EXCEPT !["A1"] = row["A2"], !["A2"] = row["A1"]]

SameSnpSwapped(u, r) ==
    /\ u["CHR"] = r["CHR"]
    /\ u["BP"] = r["BP"]
    /\ u["A1"] = r["A2"]
    /\ u["A2"] = r["A1"]

DupUser == Indexed /\ duplicated(df_snps)

DupRef ==
    \E i, j \in DOMAIN RefTable : i < j /\ RefTable[i].snpid = RefTable[j].snpid

\* a SNP id of the sumstats table is carried by two rows of the reference table
DupRefMatched ==
    /\ Indexed
    /\ \E i, j \in DOMAIN RefTable :
          /\ i < j
          /\ RefTable[i].snpid = RefTable[j].snpid
          /\ RefTable[i].snpid \in Index(df_snps)

UnmatchedRows ==
    Rows(SelectSeq(df_snps, LAMBDA e : e.snpid \notin Index(RefTable)))

\* C6: once the missing-SNP handling has run, if some sumstats row has a SNP id
\* absent from the reference table then the unmatched rows are in the missing
\* file, and the run has failed with the missing-SNP error exactly when
\* --allow-missing is unset.
C6_MissingWritten ==
    MissingHandled /\ UnmatchedRows # <<>> =>
        /\ miss_file.written
        /\ miss_file.rows = UnmatchedRows
        /\ ~args.allow_missing => pc = "error" /\ err.line = 116
        /\ args.allow_missing => err.line # 116

\* C7: a run that ended in an error has written no main output, the main
\* output is written only by a run that completes, and a run with an unmatched
\* sumstats row and --allow-missing unset does not complete.
C7_NoOutputOnFailure ==
    /\ pc = "error" => ~out_file.written /\ err.type = "ValueError"
    /\ out_file.written => pc = "done"
    /\ pc = "done" /\ ~args.allow_missing => UnmatchedRows = <<>>

C7_Witness ==
    /\ pc = "error"
    /\ err = ValueError(116, MissingMsg)
    /\ ~args.allow_missing
    /\ UnmatchedRows # <<>>
    /\ miss_file.written
    /\ ~out_file.written

OutRowsOf(id) ==
    {i \in DOMAIN out_file.rows : snpid_of(out_file.rows[i]) = id}

\* C8: on a completed run with --allow-missing the main output has exactly
\* one row for each sumstats row whose SNP id is in the reference table and
\* none for the others, the missing file holds exactly the unmatched sumstats
\* rows, and the two row counts add up to the number of sumstats rows.
C8_Partition ==
    pc = "done" /\ args.allow_missing =>
        /\ \A i \in DOMAIN df_snps :
              Cardinality(OutRowsOf(df_snps[i].snpid))
                  = IF df_snps[i].snpid \in Index(RefTable) THEN 1 ELSE 0
        /\ \A i \in DOMAIN out_file.rows :
              snpid_of(out_file.rows[i]) \in Index(df_snps)
        /\ miss_file.rows = UnmatchedRows
        /\ miss_file.written <=> UnmatchedRows # <<>>
        /\ Len(out_file.rows) + Len(miss_file.rows) = Len(df_snps)

C8_Witness ==
    /\ pc = "done"
    /\ args.allow_missing
    /\ Len(out_file.rows) >= 1
    /\ Len(miss_file.rows) >= 1
    /\ Len(out_file.rows) + Len(miss_file.rows) = Len(df_snps)

\* C9: on a completed run every output row has the columns of the sumstats
\* table and the one added column SNPVAR, and carries the values that one
\* sumstats row has in every column of the sumstats table.
C9_UserColumnsKept ==
    pc = "done" =>
        \A i \in DOMAIN out_file.rows :
            /\ DOMAIN out_file.rows[i] = sumstats_cols \cup {"SNPVAR"}
            /\ \E k \in DOMAIN df_snps :
                  /\ df_snps[k].snpid = snpid_of(out_file.rows[i])
                  /\ \A c \in sumstats_cols :
                        out_file.rows[i][c] = df_snps[k].row[c]

=============================================================================
